---- MODULE Spec2Model ----
(***************************************************************************)
(* The entity-namespace framework of the CLI (src/src/namespace.py):       *)
(* PropertyMapping, ItemNamespace, EntityNamespace.SingleItemNamespace,    *)
(* RpcBasedLoadMixin and TaskBasedSaveMixin, with the schema declared by   *)
(* the tunables plugin (src/freenas/cli/plugins/tunables.py).              *)
(*                                                                         *)
(* The collection namespace owns a set of single-item namespaces (the      *)
(* objects the shell has enumerated or created), the backend holds the     *)
(* records, and submitted tasks wait for their completion callback.        *)
(***************************************************************************)
EXTENDS Integers, Sequences, FiniteSets, Bags, TLC

\* Number of tasks submitted in one session.
MaxTasks == 2

\* The slots of the single-item namespace objects that exist at a time: the
\* one the shell is in and those that outstanding callbacks refer to.
Items == 1..MaxTasks

(***************************************************************************)
(* Values.  Every value of an entity field, and the absence of the key, is *)
(* a record of the same shape so that any two of them compare.             *)
(***************************************************************************)
Absent == [t |-> "absent", v |-> <<>>]
NoneVal == [t |-> "none", v |-> <<>>]
Str(s) == [t |-> "str", v |-> <<s>>]
Bool(b) == [t |-> "bool", v |-> <<IF b THEN "true" ELSE "false">>]
Arr(s) == [t |-> "arr", v |-> s]

\* The keys of an entity record (the get/set keys of the tunables schema
\* that the model follows, and an array-valued key).
Keys == {"var", "enabled", "tags"}

\* A dict without keys.
EmptyEntity == [k \in Keys |-> Absent]

\* Primary-key values the backend can hold a record under.
PKs == {"a", "b"}

(***************************************************************************)
(* PropertyMapping and the schema.                                         *)
(***************************************************************************)
\* PropertyMapping.__init__: set defaults to get; get/set are key names
\* (not callables) in every add_property call of the plugin.
PropertyMapping(name, get, type) ==
    [name |-> name, get |-> get, set |-> get,
     get_callable |-> FALSE, set_callable |-> FALSE, type |-> type]

\* self.property_mappings after the add_property calls.
property_mappings ==
    << PropertyMapping("name", "var", "STRING"),
       PropertyMapping("enabled", "enabled", "BOOLEAN"),
       PropertyMapping("tags", "tags", "ARRAY") >>

\* self.primary_key_name
primary_key_name == "var"

\* has_property: any(filter(lambda x: x.name == prop, ...))
has_property(prop) ==
    \E n \in 1..Len(property_mappings) : property_mappings[n].name = prop

\* get_mapping: filter(...)[0]; the caller sees IndexError when the filter
\* is empty (found = FALSE).
get_mapping(prop) ==
    IF has_property(prop)
    THEN LET n == CHOOSE m \in 1..Len(property_mappings) :
                    /\ property_mappings[m].name = prop
                    /\ \A l \in 1..(m - 1) : property_mappings[l].name # prop
         IN [found |-> TRUE, pm |-> property_mappings[n]]
    ELSE [found |-> FALSE, pm |-> property_mappings[1]]

\* self.primary_key = self.get_mapping('name')
primary_key == get_mapping("name").pm

\* read_value(value, type) of the output module: the coerced value, or a
\* coercion error.
read_value(raw, type) ==
    CASE type = "STRING" -> [ok |-> TRUE, val |-> Str(raw)]
      [] type = "BOOLEAN" ->
            IF raw = "yes" THEN [ok |-> TRUE, val |-> Bool(TRUE)]
            ELSE IF raw = "no" THEN [ok |-> TRUE, val |-> Bool(FALSE)]
            ELSE [ok |-> FALSE, val |-> NoneVal]
      [] type = "ARRAY" -> [ok |-> TRUE, val |-> Arr(<<raw>>)]
      [] OTHER -> [ok |-> FALSE, val |-> NoneVal]

\* PropertyMapping.do_get: obj.get(key) gives None for a missing key.
do_get(pm, obj) ==
    IF obj[pm.get] = Absent THEN NoneVal ELSE obj[pm.get]

\* PropertyMapping.do_set: coerce, then write the key.  The result is the
\* object as the call leaves it and the exception raised, if any.
do_set(pm, obj, raw) ==
    LET c == read_value(raw, pm.type)
    IN IF ~c.ok THEN [obj |-> obj, err |-> "ValueError"]
       ELSE [obj |-> [obj EXCEPT ![pm.set] = c.val], err |-> "none"]

\* PropertyMapping.do_append: self.set(obj, self.get(obj).append(value)).
\* With a key name as get the call self.get(obj) raises TypeError; with a
\* callable get the list is extended in place and append returns None,
\* which a callable set then stores, while a key name as set raises.
do_append(pm, obj, raw) ==
    IF pm.type # "ARRAY" THEN [obj |-> obj, err |-> "ValueError"]
    ELSE LET c == read_value(raw, pm.type)
         IN IF ~c.ok THEN [obj |-> obj, err |-> "ValueError"]
            ELSE IF ~pm.get_callable THEN [obj |-> obj, err |-> "TypeError"]
            ELSE IF obj[pm.get].t # "arr"
                 THEN [obj |-> obj, err |-> "AttributeError"]
            ELSE LET grown == [obj EXCEPT ![pm.get] =
                                  Arr(Append(obj[pm.get].v, raw))]
                 IN IF pm.set_callable
                    THEN [obj |-> [grown EXCEPT ![pm.set] = NoneVal],
                          err |-> "none"]
                    ELSE [obj |-> grown, err |-> "TypeError"]

\* PropertyMapping.do_remove: checks the type, coerces the value, and ends.
do_remove(pm, obj, raw) ==
    IF pm.type # "ARRAY" THEN [obj |-> obj, err |-> "ValueError"]
    ELSE LET c == read_value(raw, pm.type)
         IN IF ~c.ok THEN [obj |-> obj, err |-> "ValueError"]
            ELSE [obj |-> obj, err |-> "none"]

(***************************************************************************)
(* State.                                                                  *)
(***************************************************************************)
VARIABLES
    items,      \* the single-item namespace objects, by slot
    backend,    \* the records of the remote collection, by primary key
    tasks,      \* submitted tasks whose completion is outstanding (a bag)
    submitted,  \* number of tasks submitted so far
    current,    \* the item namespace the shell is in, 0 for the collection
    checkpoint, \* history: each item's entity as of its last checkpoint
    edited,     \* history: the item's entity holds a value that a set
                \* assigned after its last load, discard or save submission
    last        \* the operation that ran last and how it ended

vars == <<items, backend, tasks, submitted, current, checkpoint, edited, last>>

\* default field values of a new record (EntityNamespace.__init__).
skeleton_entity == EmptyEntity

\* An assignment without a copy: the value is the object itself, and a
\* write through one name shows under the other.
same_object(obj) == [val |-> obj, shared |-> TRUE]

\* copy.deepcopy(obj): a new object equal to obj that shares nothing with
\* it.
deepcopy(obj) == [val |-> obj, shared |-> FALSE]

\* A slot that holds no namespace object.
FreeItem ==
    [stage |-> "free", name |-> NoneVal, saved |-> FALSE, modified |-> FALSE,
     loaded |-> FALSE, entity |-> EmptyEntity, orig_entity |-> EmptyEntity,
     aliased |-> FALSE]

\* SingleItemNamespace.__init__ (with ItemNamespace.__init__): entity and
\* orig_entity are None (loaded = FALSE), saved = name is not None.
\* aliased: entity and orig_entity are one object.
SingleItemNamespace(name) ==
    [stage |-> "made", name |-> name, saved |-> (name # NoneVal),
     modified |-> FALSE, loaded |-> FALSE,
     entity |-> EmptyEntity, orig_entity |-> EmptyEntity, aliased |-> FALSE]

\* How an operation ended, as the shell sees it: whether an exception left
\* it, and the value it returned or the message it printed.
Outcome(op, i, err, ret) ==
    [op |-> op, item |-> i, err |-> IF err = "none" THEN "none" ELSE "raised",
     ret |-> ret]

\* The record a remote call returns for one primary key, when there is one.
NoRecord == [exists |-> FALSE, rec |-> EmptyEntity]

\* RpcBasedLoadMixin.get_one: the single record whose primary key equals
\* name; the lookup fails when no record matches.
get_one(name) ==
    IF name.t = "str" /\ name.v[1] \in PKs /\ backend[name.v[1]].exists
    THEN [ok |-> TRUE, rec |-> backend[name.v[1]].rec]
    ELSE [ok |-> FALSE, rec |-> EmptyEntity]

\* get_changed_keys without the comparison of values: only the keys
\* that orig_entity lacks.
get_changed_keys_missing_only(it) ==
    {k \in Keys : it.entity[k] # Absent /\ it.orig_entity[k] = Absent}

\* ItemNamespace.get_changed_keys: keys of entity that orig_entity lacks or
\* holds with another value.
get_changed_keys(it) ==
    {k \in Keys : /\ it.entity[k] # Absent
                  /\ \/ it.orig_entity[k] = Absent
                     \/ it.entity[k] # it.orig_entity[k]}

\* ItemNamespace.get_diff: entity restricted to the changed keys.
get_diff(it) ==
    [k \in Keys |-> IF k \in get_changed_keys(it) THEN it.entity[k] ELSE Absent]

\* load without the assignment of orig_entity.
load_keeps_snapshot(it) ==
    IF it.saved
    THEN LET g == get_one(it.name)
         IN IF g.ok
            THEN [it |-> [it EXCEPT !.entity = g.rec, !.loaded = TRUE],
                  err |-> "none"]
            ELSE [it |-> it, err |-> "NotFound"]
    ELSE [it |-> it, err |-> "none"]

\* SingleItemNamespace.load: a saved item fetches its record by name, and
\* orig_entity becomes a deep copy of entity either way.
load(it) ==
    IF it.saved
    THEN LET g == get_one(it.name)
             c == deepcopy(g.rec)
         IN IF g.ok
            THEN [it |-> [it EXCEPT !.entity = g.rec, !.orig_entity = c.val,
                                    !.aliased = c.shared, !.loaded = TRUE],
                  err |-> "none"]
            ELSE [it |-> it, err |-> "NotFound"]
    ELSE LET c == deepcopy(it.entity)
         IN [it |-> [it EXCEPT !.orig_entity = c.val, !.aliased = c.shared],
             err |-> "none"]

(***************************************************************************)
(* The set command.                                                        *)
(***************************************************************************)
\* The loop over kwargs without the has_property test.
UnknownKwarg_unchecked(kwargs) == FALSE

\* The first loop of SetEntityCommand.run: some key of kwargs is unknown.
UnknownKwarg(kwargs) ==
    \E n \in 1..Len(kwargs) : ~has_property(kwargs[n].k)

\* The second loop: do_set for every kwarg, in the dict's order, on the
\* entity object itself; an exception ends the loop where it is raised.
RECURSIVE ApplyKwargs(_, _)
ApplyKwargs(kwargs, obj) ==
    IF kwargs = <<>> THEN [obj |-> obj, err |-> "none"]
    ELSE LET r == do_set(get_mapping(Head(kwargs).k).pm, obj, Head(kwargs).v)
         IN IF r.err # "none" THEN r ELSE ApplyKwargs(Tail(kwargs), r.obj)

\* One element of the third loop: the operator check, get_mapping, then
\* do_append or do_remove.
ApplyOparg(o, obj) ==
    IF o.op \notin {"+=", "-="} THEN [obj |-> obj, err |-> "CommandException"]
    ELSE IF ~get_mapping(o.k).found THEN [obj |-> obj, err |-> "IndexError"]
    ELSE IF o.op = "+=" THEN do_append(get_mapping(o.k).pm, obj, o.v)
    ELSE do_remove(get_mapping(o.k).pm, obj, o.v)

\* The third loop.
RECURSIVE ApplyOpargs(_, _)
ApplyOpargs(opargs, obj) ==
    IF opargs = <<>> THEN [obj |-> obj, err |-> "none"]
    ELSE LET r == ApplyOparg(Head(opargs), obj)
         IN IF r.err # "none" THEN r ELSE ApplyOpargs(Tail(opargs), r.obj)

\* SetEntityCommand.run on an item: the item as the command leaves it, the
\* exception it raised and the message it printed.
SetEntityCommand_run(it, kwargs, opargs) ==
    IF UnknownKwarg(kwargs)
    THEN [it |-> it, err |-> "none", ret |-> "not found"]
    ELSE LET r1 == ApplyKwargs(kwargs, it.entity)
             r2 == IF r1.err # "none" THEN r1 ELSE ApplyOpargs(opargs, r1.obj)
         IN [it |-> [it EXCEPT !.entity = r2.obj,
                               !.orig_entity = IF it.aliased THEN r2.obj
                                               ELSE it.orig_entity,
                               !.modified = IF r2.err = "none" THEN TRUE
                                            ELSE it.modified],
             err |-> r2.err, ret |-> "none"]

\* The assignments (field=value) a set command is given: two that are
\* valid, one whose value cannot be coerced, one whose field is unknown.
KwArgs ==
    {[k |-> "name", v |-> "b"], [k |-> "enabled", v |-> "yes"],
     [k |-> "enabled", v |-> "a"], [k |-> "bogus", v |-> "a"]}

\* The operator assignments (field op value) a set command is given.
OpArgs ==
    {[k |-> "tags", op |-> "+=", v |-> "a"], [k |-> "tags", op |-> "-=", v |-> "a"],
     [k |-> "tags", op |-> "~=", v |-> "a"], [k |-> "name", op |-> "+=", v |-> "a"],
     [k |-> "bogus", op |-> "+=", v |-> "a"]}

\* The arguments of one set command.  kwargs is a dict: its keys are
\* distinct and the order of its items is arbitrary; opargs is a list.
AllBatches ==
    LET one(S) == {<<>>} \cup {<<x>> : x \in S}
        two == {b \in {<<p, q>> : p \in KwArgs, q \in KwArgs} : b[1].k # b[2].k}
    IN {[kwargs |-> kw, opargs |-> op] :
            kw \in {<<>>, <<[k |-> "enabled", v |-> "yes"]>>}, op \in one(OpArgs)}
       \cup {[kwargs |-> kw, opargs |-> <<>>] : kw \in one(KwArgs) \cup two}

\* The set commands given to an item: the primary key is assigned on new
\* records only.
SetBatches(it) ==
    {b \in AllBatches :
        \A n \in 1..Len(b.kwargs) : b.kwargs[n].k = "name" => ~it.saved}

(***************************************************************************)
(* Tasks and the backend.                                                  *)
(***************************************************************************)
\* context.submit_task(name, args..., callback): the task as submitted.
\* item is the namespace the callback is bound to (0: no callback).
Task(kind, i, pk, body) == [kind |-> kind, item |-> i, pk |-> pk, body |-> body]

\* TaskBasedSaveMixin.save(this, new): the tasks the call submits and the
\* exception it raises.  orig_entity[primary_key_name] raises KeyError when
\* the snapshot has no such key.
save(it, i, new) ==
    IF new
    THEN [submit |-> SetToBag({Task("create", i, Absent, it.entity)}), err |-> "none"]
    ELSE IF it.orig_entity[primary_key_name] = Absent
         THEN [submit |-> EmptyBag, err |-> "KeyError"]
         ELSE [submit |-> SetToBag({Task("update", i, it.orig_entity[primary_key_name],
                                         get_diff(it))}),
               err |-> "none"]

\* SingleItemNamespace.save: self.parent.save(self, not self.saved)
SingleItemNamespace_save(it, i) == save(it, i, ~it.saved)

\* post_save without the assignment of saved.
post_save_keeps_saved(it, status) ==
    IF status = "FINISHED" THEN [it EXCEPT !.modified = FALSE] ELSE it

\* post_save without the test of the status.
post_save_any_status(it, status) ==
    [it EXCEPT !.modified = FALSE, !.saved = TRUE]

\* TaskBasedSaveMixin.post_save
post_save(it, status) ==
    IF status = "FINISHED"
    THEN [it EXCEPT !.modified = FALSE, !.saved = TRUE]
    ELSE it

\* delete without the lookup: the deletion task keyed by the name given.
delete_without_lookup(name) ==
    [submit |-> SetToBag({Task("delete", 0, name, EmptyEntity)}), err |-> "none"]

\* TaskBasedSaveMixin.delete(name): get_one, then the deletion task keyed by
\* the returned record's primary key.
delete(name) ==
    LET g == get_one(name)
    IN IF ~g.ok THEN [submit |-> EmptyBag, err |-> "NotFound"]
       ELSE [submit |-> SetToBag({Task("delete", 0, g.rec[primary_key_name],
                                       EmptyEntity)}),
             err |-> "none"]

\* The statuses a completion callback is called with.
Statuses == {"FINISHED", "FAILED", "ABORTED"}

\* The collection after the backend has carried out a task: a creation
\* stores the entity under its primary key, an update overlays the diff on
\* the record it names, a deletion removes the record.
Carried(t) ==
    LET stored(rec) == [exists |-> TRUE, rec |-> rec]
        keyed(v) == v.t = "str" /\ v.v[1] \in PKs
    IN CASE t.kind = "create" ->
                IF keyed(t.body[primary_key_name])
                THEN [backend EXCEPT ![t.body[primary_key_name].v[1]] = stored(t.body)]
                ELSE backend
         [] t.kind = "update" ->
                IF keyed(t.pk) /\ backend[t.pk.v[1]].exists
                THEN LET old == backend[t.pk.v[1]].rec
                         new == [k \in Keys |-> IF t.body[k] # Absent
                                                THEN t.body[k] ELSE old[k]]
                     IN IF keyed(new[primary_key_name])
                        THEN [[backend EXCEPT ![t.pk.v[1]] = NoRecord]
                                 EXCEPT ![new[primary_key_name].v[1]] = stored(new)]
                        ELSE backend
                ELSE backend
         [] OTHER ->
                IF keyed(t.pk) THEN [backend EXCEPT ![t.pk.v[1]] = NoRecord]
                ELSE backend

(***************************************************************************)
(* Initial state: the shell is in the collection namespace, no item        *)
(* namespace exists yet, and the collection holds one record.              *)
(***************************************************************************)
Init ==
    /\ items = [i \in Items |-> FreeItem]
    /\ backend = [p \in PKs |->
                    IF p = "a"
                    THEN [exists |-> TRUE,
                          rec |-> [k \in Keys |->
                                     CASE k = "var" -> Str("a")
                                       [] k = "enabled" -> Bool(FALSE)
                                       [] OTHER -> Arr(<<"a">>)]]
                    ELSE NoRecord]
    /\ tasks = EmptyBag
    /\ submitted = 0
    /\ current = 0
    /\ checkpoint = [i \in Items |-> EmptyEntity]
    /\ edited = [i \in Items |-> FALSE]
    /\ last = Outcome("init", 0, "none", "none")

(***************************************************************************)
(* Object lifetime.  A namespace object is referenced by the shell while   *)
(* it is being entered or is the current namespace, and by the callback of *)
(* every outstanding task submitted for it; an object without references   *)
(* is reclaimed before the next command runs.                              *)
(***************************************************************************)
Pending(i) == \E t \in BagToSet(tasks) : t.item = i

Unreferenced(i) == items[i].stage = "left" /\ ~Pending(i)

NoneUnreferenced == \A i \in Items : ~Unreferenced(i)

\* A new namespace object takes the first slot that holds none.
NextFree(i) ==
    /\ items[i].stage = "free"
    /\ \A j \in 1..(i - 1) : items[j].stage # "free"

\* The object in slot i is reclaimed.
Reclaim(i) ==
    /\ Unreferenced(i)
    /\ items' = [items EXCEPT ![i] = FreeItem]
    /\ last' = Outcome("reclaim", i, "none", "none")
    /\ UNCHANGED <<backend, tasks, submitted, current, checkpoint, edited>>

(***************************************************************************)
(* Operations.                                                             *)
(***************************************************************************)
\* RpcBasedLoadMixin.query([], {}): the records of the collection, in the
\* order the backend returns them.
query ==
    LET present(p) == IF backend[p].exists THEN <<backend[p].rec>> ELSE <<>>
    IN present("a") \o present("b")

\* namespaces with every object made without a name.
namespaces_unnamed(pk) ==
    IF pk = NoneVal THEN [queries |-> 0, yielded |-> <<>>]
    ELSE [queries |-> 1,
          yielded |-> [n \in 1..Len(query) |-> SingleItemNamespace(NoneVal)]]

\* EntityNamespace.namespaces of a collection whose primary_key is pk
\* (None when not configured): the number of query calls one traversal
\* makes and the objects it yields, one SingleItemNamespace per queried
\* record, named by the record's primary key.
EntityNamespace_namespaces(pk) ==
    IF pk = NoneVal THEN [queries |-> 0, yielded |-> <<>>]
    ELSE [queries |-> 1,
          yielded |-> [n \in 1..Len(query) |->
                          SingleItemNamespace(do_get(pk, query[n]))]]

\* The objects namespaces() yields in the collection of the model.
namespaces == EntityNamespace_namespaces(primary_key).yielded

\* ItemNamespace.on_enter: load().
on_enter(it) == load(it)

\* The shell enters a record's namespace: it takes the n-th object that
\* namespaces() yields and calls on_enter; it is in the item afterwards
\* unless load raised, and drops the object then.
Enter(i, n) ==
    /\ current = 0
    /\ NoneUnreferenced
    /\ NextFree(i)
    /\ n \in 1..Len(namespaces)
    /\ LET r == on_enter(namespaces[n])
       IN /\ items' = [items EXCEPT ![i] =
                          [r.it EXCEPT !.stage = IF r.err = "none" THEN "entered"
                                                 ELSE "left"]]
          /\ current' = IF r.err = "none" THEN i ELSE 0
          /\ checkpoint' = [checkpoint EXCEPT ![i] = r.it.entity]
          /\ last' = Outcome("on_enter", i, r.err, "none")
    /\ edited' = [edited EXCEPT ![i] = FALSE]
    /\ UNCHANGED <<backend, tasks, submitted>>

\* CreateEntityCommand.run without arguments: a new namespace holding two
\* copies of skeleton_entity, then context.ml.cd(ns), which enters it.
CreateInteractive(i) ==
    /\ current = 0
    /\ NoneUnreferenced
    /\ NextFree(i)
    /\ LET o == deepcopy(skeleton_entity)
           e == deepcopy(skeleton_entity)
           ns == [SingleItemNamespace(NoneVal) EXCEPT
                     !.orig_entity = o.val,
                     !.entity = e.val,
                     !.aliased = o.shared /\ e.shared,
                     !.loaded = TRUE]
           r == load(ns)
       IN /\ items' = [items EXCEPT ![i] = [r.it EXCEPT !.stage = "entered"]]
          /\ checkpoint' = [checkpoint EXCEPT ![i] = r.it.entity]
    /\ current' = i
    /\ last' = Outcome("create", i, "none", "none")
    /\ edited' = [edited EXCEPT ![i] = FALSE]
    /\ UNCHANGED <<backend, tasks, submitted>>

\* An object the shell holds no longer: no command reaches its entity
\* again, and the callbacks that still refer to it use its flags only.
Dropped(it) ==
    [it EXCEPT !.stage = "left", !.loaded = FALSE, !.aliased = FALSE,
               !.entity = EmptyEntity, !.orig_entity = EmptyEntity]

\* CreateEntityCommand.run with arguments, for a namespace object in slot
\* i: the object as the command leaves it, the tasks it submits, the
\* exception raised, the message printed, and skeleton_entity as the
\* command leaves it.
CreateEntityCommand_run(i, args, kwargs) ==
    LET o == deepcopy(skeleton_entity)
        e == deepcopy(skeleton_entity)
        ns == [SingleItemNamespace(NoneVal) EXCEPT
                  !.orig_entity = o.val, !.entity = e.val,
                  !.aliased = o.shared /\ e.shared, !.loaded = TRUE]
        left(obj, sub, err, ret) ==
            [ns |-> [ns EXCEPT !.entity = obj], submit |-> sub, err |-> err,
             ret |-> ret,
             skeleton |-> IF e.shared THEN obj ELSE skeleton_entity]
        r0 == IF args # <<>> THEN do_set(primary_key, ns.entity, Head(args))
              ELSE [obj |-> ns.entity, err |-> "none"]
    IN IF r0.err # "none" THEN left(r0.obj, EmptyBag, r0.err, "none")
       ELSE IF UnknownKwarg(kwargs) THEN left(r0.obj, EmptyBag, "none", "not found")
       ELSE LET r1 == ApplyKwargs(kwargs, r0.obj)
            IN IF r1.err # "none" THEN left(r1.obj, EmptyBag, r1.err, "none")
               ELSE LET sv == save([ns EXCEPT !.entity = r1.obj], i, TRUE)
                    IN left(r1.obj, sv.submit, sv.err, "none")

\* The arguments of one create command: an optional positional value for
\* the primary key, and a dict of assignments.
CreateBatches ==
    LET yes == [k |-> "enabled", v |-> "yes"]
        bad == [k |-> "enabled", v |-> "a"]
        bogus == [k |-> "bogus", v |-> "a"]
    IN {[args |-> a, kwargs |-> kw] :
            a \in {<<>>, <<"b">>},
            kw \in {<<>>, <<yes>>, <<bad>>, <<bogus>>, <<yes, bogus>>}}
       \ {[args |-> <<>>, kwargs |-> <<>>]}

\* CreateEntityCommand.run with arguments, in the collection namespace.
\* The new object is not entered: after the command only the callback of
\* the task it submitted refers to it.
Create(i, args, kwargs) ==
    /\ current = 0
    /\ NoneUnreferenced
    /\ NextFree(i)
    /\ submitted < MaxTasks
    /\ [args |-> args, kwargs |-> kwargs] \in CreateBatches
    /\ LET r == CreateEntityCommand_run(i, args, kwargs)
       IN /\ items' = IF r.submit # EmptyBag
                      THEN [items EXCEPT ![i] = Dropped(r.ns)]
                      ELSE items
          /\ tasks' = tasks (+) r.submit
          /\ submitted' = submitted + BagCardinality(r.submit)
          /\ last' = Outcome("create", IF r.submit # EmptyBag THEN i ELSE 0,
                             r.err, IF r.submit # EmptyBag THEN "submitted"
                                    ELSE r.ret)
    /\ UNCHANGED <<backend, current, checkpoint, edited>>

\* SetEntityCommand.run on the current item.
Set(kwargs, opargs) ==
    /\ current # 0
    /\ NoneUnreferenced
    /\ [kwargs |-> kwargs, opargs |-> opargs] \in SetBatches(items[current])
    /\ LET r == SetEntityCommand_run(items[current], kwargs, opargs)
       IN /\ items' = [items EXCEPT ![current] = r.it]
          /\ last' = Outcome("set", current, r.err, r.ret)
          /\ edited' = IF /\ r.err = "none" /\ r.ret = "none"
                          /\ r.it.entity # items[current].entity
                       THEN [edited EXCEPT ![current] = TRUE]
                       ELSE edited
    /\ UNCHANGED <<backend, tasks, submitted, current, checkpoint>>

\* ShowEntityCommand.run on the current item: it reads every mapped field
\* of the entity and prints the values.
Show ==
    /\ current # 0
    /\ NoneUnreferenced
    /\ last' = Outcome("show", current, "none", "none")
    /\ UNCHANGED <<items, backend, tasks, submitted, current, checkpoint, edited>>

\* GetEntityCommand.run on the current item: it prints the value of a
\* known field, and a message for an unknown one.
Get(field) ==
    /\ current # 0
    /\ NoneUnreferenced
    /\ last' = Outcome("get", current, "none",
                       IF has_property(field) THEN "none" ELSE "not found")
    /\ UNCHANGED <<items, backend, tasks, submitted, current, checkpoint, edited>>

\* DiscardEntityCommand.run on the current item: load(), then modified =
\* False; an exception from load leaves modified as it is.
DiscardEntityCommand_run(it) ==
    LET r == load(it)
    IN IF r.err = "none" THEN [it |-> [r.it EXCEPT !.modified = FALSE], err |-> "none"]
       ELSE r

Discard ==
    /\ current # 0
    /\ NoneUnreferenced
    /\ LET r == DiscardEntityCommand_run(items[current])
       IN /\ items' = [items EXCEPT ![current] = r.it]
          /\ checkpoint' = IF r.err = "none"
                           THEN [checkpoint EXCEPT ![current] = r.it.entity]
                           ELSE checkpoint
          /\ last' = Outcome("discard", current, r.err, "none")
          /\ edited' = IF r.err = "none"
                       THEN [edited EXCEPT ![current] = FALSE]
                       ELSE edited
    /\ UNCHANGED <<backend, tasks, submitted, current>>

\* SaveEntityCommand.run on the current item: self.parent.save().
Save ==
    /\ current # 0
    /\ NoneUnreferenced
    /\ submitted < MaxTasks
    /\ LET r == SingleItemNamespace_save(items[current], current)
       IN /\ tasks' = tasks (+) r.submit
          /\ submitted' = submitted + BagCardinality(r.submit)
          /\ last' = Outcome("save", current, r.err, "none")
          /\ edited' = IF r.submit # EmptyBag
                       THEN [edited EXCEPT ![current] = FALSE]
                       ELSE edited
    /\ UNCHANGED <<items, backend, current, checkpoint>>

\* on_leave without the test of modified.
on_leave_always(it) == TRUE

\* ItemNamespace.on_leave: the value it returns.
on_leave(it) == ~it.modified

\* The shell asks to leave the current item: on_leave().
OnLeave ==
    /\ current # 0
    /\ NoneUnreferenced
    /\ last' = Outcome("on_leave", current, "none",
                       IF on_leave(items[current]) THEN "True" ELSE "False")
    /\ UNCHANGED <<items, backend, tasks, submitted, current, checkpoint, edited>>

\* After on_leave allowed it, the shell is back in the collection namespace
\* and holds the item no longer.
Leave ==
    /\ current # 0
    /\ last = Outcome("on_leave", current, "none", "True")
    /\ items' = [items EXCEPT ![current] = Dropped(items[current])]
    /\ current' = 0
    /\ checkpoint' = [checkpoint EXCEPT ![current] = EmptyEntity]
    /\ last' = Outcome("left", current, "none", "none")
    /\ edited' = [edited EXCEPT ![current] = FALSE]
    /\ UNCHANGED <<backend, tasks, submitted>>

\* DeleteEntityCommand.run in the collection namespace.
Delete(name) ==
    /\ current = 0
    /\ NoneUnreferenced
    /\ submitted < MaxTasks
    /\ LET r == delete(Str(name))
       IN /\ tasks' = tasks (+) r.submit
          /\ submitted' = submitted + BagCardinality(r.submit)
          /\ last' = Outcome("delete", 0, r.err, "none")
    /\ UNCHANGED <<items, backend, current, checkpoint, edited>>

\* A callback that runs post_save on every namespace object there is.
callback_every_item(t, status) ==
    [i \in Items |-> IF t.item # 0 /\ items[i].stage # "free"
                     THEN post_save(items[i], status) ELSE items[i]]

\* callback=lambda s: self.post_save(this, s), as given to submit_task by
\* save: the namespace objects after the callback of task t has run.  this
\* is the object save was called for; a deletion task has no callback.
callback(t, status) ==
    IF t.item # 0
    THEN [items EXCEPT ![t.item] = post_save(items[t.item], status)]
    ELSE items

\* A submitted task ends with a status: the backend has carried it out when
\* the status is FINISHED, and the callback given at submission,
\* lambda s: self.post_save(this, s), runs with the status.
Complete(t, status) ==
    /\ BagIn(t, tasks)
    /\ NoneUnreferenced
    /\ backend' = IF status = "FINISHED" THEN Carried(t) ELSE backend
    /\ items' = callback(t, status)
    /\ last' = Outcome("callback", t.item, "none",
                       IF status = "FINISHED" THEN status ELSE "other")
    /\ checkpoint' = IF t.item # 0 /\ status = "FINISHED"
                     THEN [checkpoint EXCEPT ![t.item] = items[t.item].entity]
                     ELSE checkpoint
    /\ tasks' = tasks (-) SetToBag({t})
    /\ UNCHANGED <<submitted, current, edited>>

Next ==
    \/ \E i \in Items, n \in 1..Cardinality(PKs) : Enter(i, n)
    \/ \E i \in Items : CreateInteractive(i)
    \/ \E i \in Items, b \in CreateBatches : Create(i, b.args, b.kwargs)
    \/ \E b \in AllBatches : Set(b.kwargs, b.opargs)
    \/ Show
    \/ \E field \in {"enabled", "bogus"} : Get(field)
    \/ Discard
    \/ Save
    \/ OnLeave
    \/ Leave
    \/ \E name \in PKs : Delete(name)
    \/ \E t \in BagToSet(tasks), status \in Statuses : Complete(t, status)
    \/ \E i \in Items : Reclaim(i)

Spec == Init /\ [][Next]_vars

(***************************************************************************)
(* Properties.                                                             *)
(***************************************************************************)

\* C1: on_leave raises nothing, returns False exactly when the item is
\* modified at the time of the call and True otherwise, and changes no
\* field of any item (entity, orig_entity, modified, saved).
C1_OnLeaveRefusesIffModified ==
    [][last'.op = "on_leave" =>
         /\ last'.err = "none"
         /\ last'.ret = (IF items[last'.item].modified THEN "False" ELSE "True")
         /\ items' = items]_vars

\* on_leave has refused a modified item, which is still the current one.
C1_Witness ==
    /\ last.op = "on_leave" /\ last.ret = "False"
    /\ current = last.item /\ items[current].modified

\* C2: right after the completion callback of a save task has run with
\* FINISHED, the item it was submitted for has modified = FALSE and saved =
\* TRUE.
C2_FinishedClearsModifiedSetsSaved ==
    (last.op = "callback" /\ last.ret = "FINISHED" /\ last.item # 0) =>
        (~items[last.item].modified /\ items[last.item].saved)

\* A FINISHED callback has run for the item the shell is in.
C2_Witness ==
    /\ last.op = "callback" /\ last.ret = "FINISHED"
    /\ last.item # 0 /\ last.item = current
    /\ items[current].saved /\ ~items[current].modified

\* C3: a completion callback that runs with a status other than FINISHED
\* raises nothing and changes no field of any item: modified, saved, entity
\* and orig_entity keep their values.
C3_OtherStatusChangesNothing ==
    [][(last'.op = "callback" /\ last'.ret # "FINISHED") =>
         (last'.err = "none" /\ items' = items)]_vars

\* A callback with another status has run for a modified, unsaved item.
C3_Witness ==
    /\ last.op = "callback" /\ last.ret = "other"
    /\ last.item # 0 /\ last.item = current
    /\ items[current].modified /\ ~items[current].saved

\* C4: in every state of a loaded item the shell is in, modified is TRUE
\* if and only if the working entity differs from its value at the item's
\* last checkpoint (load, discard, or a save completed with FINISHED).
\* Stated here is the half that keeps an edit from being lost: whenever
\* the entity differs from its value at the checkpoint, modified is TRUE.
C4_EntityDiffersImpliesModified ==
    \A i \in Items :
        (items[i].stage = "entered" /\ items[i].loaded
            /\ items[i].entity # checkpoint[i]) => items[i].modified

\* Some field named by the batch, in kwargs or in opargs, is not in the
\* schema.
HasUnknownField(b) ==
    \/ \E n \in 1..Len(b.kwargs) : ~has_property(b.kwargs[n].k)
    \/ \E n \in 1..Len(b.opargs) : ~has_property(b.opargs[n].k)

\* The set command changed neither entity nor modified of the current item.
SetAppliedNothing ==
    /\ items'[current].entity = items[current].entity
    /\ items'[current].modified = items[current].modified

\* C5: a set command whose batch names a field that is not in the schema,
\* in a plain or in an operator assignment and in any order of the batch,
\* leaves entity and modified as they were.
C5_UnknownFieldAppliesNothing ==
    [][\A b \in AllBatches :
          (Set(b.kwargs, b.opargs) /\ HasUnknownField(b)) => SetAppliedNothing]_vars

\* The batch names known fields only and the command fails on a value that
\* cannot be coerced, on an operator other than += and -=, or on += / -=
\* given to a field that is no ARRAY.
FailsValidation(it, b) ==
    /\ ~HasUnknownField(b)
    /\ SetEntityCommand_run(it, b.kwargs, b.opargs).err
          \in {"ValueError", "CommandException"}

\* C6: a set command that fails for a validation reason other than an
\* unknown field leaves entity and modified as they were, also for the
\* valid assignments that precede the failing one.
C6_ValidationFailureAppliesNothing ==
    [][\A b \in AllBatches :
          (Set(b.kwargs, b.opargs) /\ FailsValidation(items[current], b))
              => SetAppliedNothing]_vars

\* C7: after a discard, on a saved or on a new item, entity equals the
\* orig_entity snapshot held before the discard, no key is changed,
\* modified is FALSE and on_leave allows leaving.
C7_DiscardRestoresSnapshot ==
    [][(last'.op = "discard" /\ last'.err = "none") =>
         /\ items'[last'.item].entity = items[last'.item].orig_entity
         /\ get_changed_keys(items'[last'.item]) = {}
         /\ ~items'[last'.item].modified
         /\ on_leave(items'[last'.item])]_vars

\* The diff as the claim words it: entity restricted to the keys that
\* orig_entity lacks or holds with another value.
RestrictedToChanged(it) ==
    [k \in Keys |-> IF it.entity[k] # Absent /\ it.entity[k] # it.orig_entity[k]
                    THEN it.entity[k] ELSE Absent]

\* C8: every save of an item whose saved flag is TRUE submits an update
\* task whose arguments are the primary-key value held in orig_entity and
\* the diff, never the full entity.
C8_SaveOfSavedItemSubmitsUpdate ==
    [][(last'.op = "save" /\ items[last'.item].saved) =>
         LET it == items[last'.item]
         IN /\ last'.err = "none"
            /\ it.orig_entity[primary_key_name] # Absent
            /\ tasks' = tasks (+) SetToBag({Task("update", last'.item,
                                                 it.orig_entity[primary_key_name],
                                                 RestrictedToChanged(it))})]_vars

\* C9: each save submits exactly one task, a creation task with the full
\* entity when saved is FALSE and an update task when saved is TRUE.
C9_SaveSubmitsExactlyOneTask ==
    [][last'.op = "save" =>
         LET it == items[last'.item]
         IN \E t \in BagToSet(tasks') :
               /\ tasks' = tasks (+) SetToBag({t})
               /\ t.item = last'.item
               /\ IF it.saved THEN t.kind = "update"
                  ELSE t.kind = "create" /\ t.body = it.entity]_vars

KnownKeys(kwargs) == \A n \in 1..Len(kwargs) : has_property(kwargs[n].k)

\* Every value of the assignments can be coerced to its field's type.
Coercible(kwargs) ==
    \A n \in 1..Len(kwargs) :
        has_property(kwargs[n].k) =>
            read_value(kwargs[n].v, get_mapping(kwargs[n].k).pm.type).ok

\* skeleton_entity overlaid with the positional primary-key value and with
\* the coerced assignments.
CoercedOverlay(args, kwargs) ==
    [k \in Keys |->
        IF \E n \in 1..Len(kwargs) : get_mapping(kwargs[n].k).pm.set = k
        THEN LET n == CHOOSE m \in 1..Len(kwargs) :
                          get_mapping(kwargs[m].k).pm.set = k
             IN read_value(kwargs[n].v, get_mapping(kwargs[n].k).pm.type).val
        ELSE IF args # <<>> /\ k = primary_key.set THEN Str(Head(args))
        ELSE skeleton_entity[k]]

\* A create with an unknown key submits nothing and changes neither an
\* item nor skeleton_entity.
CreateAppliedNothing(i, b) ==
    /\ tasks' = tasks
    /\ items' = items
    /\ CreateEntityCommand_run(i, b.args, b.kwargs).skeleton = skeleton_entity

\* A create submits one creation task, bound to the new object, whose
\* entity is the overlay.
CreateSubmittedOverlay(i, b) ==
    tasks' = tasks (+) SetToBag({Task("create", i, Absent,
                                      CoercedOverlay(b.args, b.kwargs))})

\* C11 as stated: a create with an assignment whose key is not in the
\* schema submits no task and changes neither skeleton_entity nor an
\* existing item; a create with arguments whose keys are all in the schema
\* submits exactly one creation task whose entity is skeleton_entity
\* overlaid with the coerced assignments.
C11_CreateAsStated ==
    [][last'.op = "create" => \A i \in Items, b \in CreateBatches :
          Create(i, b.args, b.kwargs) =>
              IF ~KnownKeys(b.kwargs) THEN CreateAppliedNothing(i, b)
              ELSE CreateSubmittedOverlay(i, b)]_vars

\* C11, amended: as stated when every value can be coerced; a create whose
\* keys are all in the schema and one of whose values cannot be coerced
\* raises and submits no task.
C11_CreateValidatesKeysThenCoerces ==
    [][last'.op = "create" => \A i \in Items, b \in CreateBatches :
          Create(i, b.args, b.kwargs) =>
              IF ~KnownKeys(b.kwargs) THEN CreateAppliedNothing(i, b)
              ELSE IF Coercible(b.kwargs) THEN CreateSubmittedOverlay(i, b)
              ELSE tasks' = tasks /\ items' = items /\ last'.err = "raised"]_vars

\* A create with a positional primary-key value and a coercible assignment
\* has submitted its creation task.
C11_Witness ==
    /\ last.op = "create" /\ last.ret = "submitted"
    /\ BagIn(Task("create", last.item, Absent,
                  [skeleton_entity EXCEPT !["var"] = Str("b"),
                                          !["enabled"] = Bool(TRUE)]), tasks)

\* C12: orig_entity is an independent copy of entity: no set command,
\* whether it ends normally or raises, changes the orig_entity of any
\* item, be the item produced by load or by create.
C12_SetNeverChangesOrigEntity ==
    [][last'.op = "set" =>
         \A i \in Items : items'[i].orig_entity = items[i].orig_entity]_vars

\* A set command has changed the entity of a new item created
\* interactively, and the snapshot still holds the value before it.
C12_Witness ==
    /\ last.op = "set" /\ last.err = "none"
    /\ ~items[last.item].saved
    /\ items[last.item].entity["var"] = Str("b")
    /\ items[last.item].orig_entity = skeleton_entity

\* The step is a load that ended without an exception: on entering a
\* record, on entering a new item after create without arguments, or by
\* discard.
LoadedBy(l) ==
    /\ l.err = "none" /\ l.item # 0
    /\ \/ l.op \in {"on_enter", "discard"}
       \/ l.op = "create" /\ l.ret = "none"

\* C13: immediately after every successful load of an item, saved or new,
\* on entering it or through discard, its changed-key set and its diff
\* are empty.
C13_DiffEmptyAfterLoad ==
    [][LoadedBy(last') =>
         /\ get_changed_keys(items'[last'.item]) = {}
         /\ get_diff(items'[last'.item]) = EmptyEntity]_vars

\* A discard has loaded a new item that holds an edit, and nothing of it
\* counts as changed.
C13_Witness ==
    /\ last.op = "discard" /\ last.err = "none"
    /\ ~items[last.item].saved
    /\ items[last.item].entity["var"] = Str("b")
    /\ get_changed_keys(items[last.item]) = {}

\* The set command ended without an exception and reached its last
\* statement, modified = True.
SetSucceeded(l) == l.op = "set" /\ l.err = "none" /\ l.ret = "none"

AssignsOtherValue(it, b) ==
    \E n \in 1..Len(b.kwargs) :
        /\ has_property(b.kwargs[n].k)
        /\ LET pm == get_mapping(b.kwargs[n].k).pm
               c == read_value(b.kwargs[n].v, pm.type)
           IN c.ok /\ c.val # it.orig_entity[pm.set]

IsArrayEdit(b) ==
    /\ b.kwargs = <<>> /\ Len(b.opargs) = 1
    /\ b.opargs[1].op \in {"+=", "-="}
    /\ has_property(b.opargs[1].k)
    /\ get_mapping(b.opargs[1].k).pm.type = "ARRAY"

\* The elements the field is to hold after the edit: the previous ones
\* followed by v for +=, the previous ones without v for -=.
EditedArray(old, o) ==
    IF o.op = "+=" THEN Arr(Append(old.v, o.v))
    ELSE Arr(SelectSeq(old.v, LAMBDA x : x # o.v))

\* C15: for a field of declared type ARRAY, set field+=v leaves the field
\* holding its previous elements followed by v and set field-=v leaves it
\* holding its previous elements without v; the new array is stored in
\* entity and modified becomes TRUE.
C15_AppendAndRemoveEditTheArray ==
    [][\A b \in AllBatches :
          (IsArrayEdit(b) /\ Set(b.kwargs, b.opargs)) =>
              LET key == get_mapping(b.opargs[1].k).pm.get
              IN /\ last'.err = "none"
                 /\ items'[current].modified
                 /\ items'[current].entity[key] =
                        EditedArray(items[current].entity[key], b.opargs[1])]_vars

\* The records the collection holds, in the order of the query.
Records == SelectSeq(<<"a", "b">>, LAMBDA p : backend[p].exists)

\* C16: without a primary key a traversal of the child namespaces yields
\* nothing and issues no query; with one it issues one unfiltered query
\* and yields one single-item namespace per returned record, in query
\* order, named by the record's primary-key value, saved and not modified.
C16_NamespacesOnePerRecord ==
    /\ EntityNamespace_namespaces(NoneVal) = [queries |-> 0, yielded |-> <<>>]
    /\ LET r == EntityNamespace_namespaces(primary_key)
       IN /\ r.queries = 1
          /\ Len(r.yielded) = Len(Records)
          /\ \A n \in 1..Len(Records) :
                /\ r.yielded[n].name = backend[Records[n]].rec[primary_key_name]
                /\ r.yielded[n].name = Str(Records[n])
                /\ r.yielded[n].saved
                /\ ~r.yielded[n].modified

\* The collection holds two records and the shell has entered the second
\* namespace of the traversal.
C16_Witness ==
    /\ Len(Records) = 2
    /\ last.op = "on_enter" /\ last.err = "none"
    /\ items[last.item].name = Str("b")
    /\ items[last.item].saved /\ ~items[last.item].modified

\* C17: on one item, modified changes from FALSE to TRUE only by a set
\* command that completes without error, and from TRUE to FALSE only by
\* discard or by a save completion callback with status FINISHED; entering,
\* get, show, on_leave, a save submission and a callback with another
\* status never change it.
C17_ModifiedChangesOnlyBySetDiscardFinished ==
    [][\A i \in Items :
          (items[i].stage # "free" /\ items'[i].stage # "free") =>
             /\ (~items[i].modified /\ items'[i].modified) =>
                    (SetSucceeded(last') /\ last'.item = i)
             /\ (items[i].modified /\ ~items'[i].modified) =>
                    /\ last'.item = i
                    /\ \/ last'.op = "discard" /\ last'.err = "none"
                       \/ last'.op = "callback" /\ last'.ret = "FINISHED"
             /\ last'.op \in {"on_enter", "get", "show", "on_leave", "save"}
                    => items'[i].modified = items[i].modified
             /\ (last'.op = "callback" /\ last'.ret # "FINISHED")
                    => items'[i].modified = items[i].modified]_vars

\* An item was set, saved, and the FINISHED callback of its task has
\* cleared modified while the shell is still in it.
C17_Witness ==
    /\ last.op = "callback" /\ last.ret = "FINISHED"
    /\ last.item # 0 /\ current = last.item
    /\ ~items[current].modified
    /\ items[current].entity # items[current].orig_entity

\* C18: an edit made by set after the most recent save submission stays
\* protected: while the entity of the item the shell is in holds a value
\* that a successful set assigned after the item's last save submission
\* and that was not discarded, on_leave does not allow leaving, whatever
\* completion callbacks of earlier tasks have run in between.
C18_LaterEditStaysProtected ==
    \A i \in Items :
        (items[i].stage = "entered" /\ edited[i]) => ~on_leave(items[i])

\* C19: once the creation task of an item created interactively (create
\* without arguments, set, save) has completed with FINISHED, a further
\* set followed by save submits, without raising, an update task keyed by
\* the primary-key value the record was created with.
C19_SaveAfterInteractiveCreateUpdates ==
    [][(/\ SetSucceeded(last) /\ last'.op = "save" /\ last'.item = last.item
        /\ items[last.item].name = NoneVal
        /\ items[last.item].saved
        /\ items[last.item].entity[primary_key_name] # Absent)
       => /\ last'.err = "none"
          /\ \E t \in BagToSet(tasks') :
                /\ tasks' = tasks (+) SetToBag({t})
                /\ t.kind = "update"
                /\ t.pk = items[last.item].entity[primary_key_name]]_vars

\* C20: for any one item at most one creation task is in flight at a
\* time: a save issued while an earlier creation task of the same item
\* awaits its completion callback submits no second creation task.
C20_OneCreationTaskInFlight ==
    \A i \in Items :
        \A t, u \in BagToSet(tasks) :
            (t.kind = "create" /\ u.kind = "create" /\ t.item = i /\ u.item = i)
                => (t = u /\ CopiesIn(t, tasks) = 1)

\* Exactly one task of item i is in flight.
OnlyTaskOf(i) ==
    \E t \in BagToSet(tasks) :
        /\ t.item = i /\ CopiesIn(t, tasks) = 1
        /\ \A u \in BagToSet(tasks) : u.item = i => u = t

\* C21: after a save task completes with FINISHED and no set was applied
\* since its submission, the item's snapshot has advanced to the saved
\* state: orig_entity equals entity and no key is changed.  Stated for a
\* task whose completion follows its submission directly, with no other
\* task of the item in flight.
C21_SnapshotAdvancesOnFinished ==
    [][(/\ last.op = "save" /\ last.err = "none" /\ last.item # 0
        /\ OnlyTaskOf(last.item)
        /\ last'.op = "callback" /\ last'.ret = "FINISHED"
        /\ last'.item = last.item)
       => /\ items'[last.item].orig_entity = items'[last.item].entity
          /\ get_changed_keys(items'[last.item]) = {}]_vars

\* C22: with save tasks of several namespace objects in flight and their
\* callbacks delivered in any order, a callback changes modified and saved
\* of the item it was submitted for only: every other item, also another
\* object made for the same record, keeps entity, orig_entity, modified
\* and saved, and the callback's own item keeps entity and orig_entity.
C22_CallbackTouchesOwnItemOnly ==
    [][last'.op = "callback" =>
         \A j \in Items :
            IF j = last'.item
            THEN items'[j] = [items[j] EXCEPT !.modified = items'[j].modified,
                                              !.saved = items'[j].saved]
            ELSE items'[j] = items[j]]_vars

\* The FINISHED callback of a task submitted for an object the shell has
\* left has run while the shell is in a second, modified object made for
\* the same record, which is still modified.
C22_Witness ==
    /\ last.op = "callback" /\ last.ret = "FINISHED"
    /\ last.item # 0 /\ current # 0 /\ last.item # current
    /\ items[last.item].name = Str("a")
    /\ items[current].name = Str("a")
    /\ items[current].modified
    /\ Pending(current)

====
